---- MODULE Spec2Model ----
(***************************************************************************)
(* estrutura.py: a script that materialises a nested mapping               *)
(* (estrutura_projeto) as directories and files below diretorio_base.      *)
(*                                                                         *)
(* A path is the sequence of its components; <<>> is the process's current *)
(* directory ("./"), which always exists.  The filesystem is a function    *)
(* from the existing paths to their entries.  A text is a sequence of      *)
(* symbols, so that appending and overwriting differ.                       *)
(***************************************************************************)
EXTENDS Naturals, Sequences, FiniteSets

VARIABLES
    diretorio_base,     \* the base path handed to the walk
    estrutura_projeto,  \* the tree description (read-only during the walk)
    fs0,                \* the filesystem before the program started
    fs,                 \* the filesystem now
    stack,              \* the active calls of criar_estrutura, innermost last
    pc,                 \* where the program is
    exc,                \* the exception in flight ("none" when there is none)
    handles,            \* the paths of the file objects that are open
    buf,                \* the text buffered in the open file object
    out                 \* the lines printed on standard output

vars == <<diretorio_base, estrutura_projeto, fs0, fs, stack, pc, exc, handles, buf, out>>

---------------------------------------------------------------------------
(* Bounds of the model. *)

\* The largest number of nodes (files and directories) of a tree description.
MaxNodes == 3
\* The largest number of entries the filesystem holds before the program runs.
MaxPre == 2

\* The names a mapping's keys and the filesystem's components are drawn from.
Names == {"a", "b"}
\* The file contents a tree description gives ("" and a placeholder comment).
Texts == {<<>>, <<"x">>}
\* The contents of the files that exist before the program runs.
OldTexts == {<<"y">>}
\* The base paths: "./" (as in the script) and "./a".
Bases == {<<>>, <<"a">>}

---------------------------------------------------------------------------
(* Tree descriptions: a mapping is the sequence of its items in iteration  *)
(* order; a value is a mapping (a directory) or a str (a file).            *)

Dict(items) == [dict |-> TRUE, items |-> items, text |-> <<>>]
Str(text) == [dict |-> FALSE, items |-> <<>>, text |-> text]
Item(nome, conteudo) == [nome |-> nome, conteudo |-> conteudo]

RECURSIVE MapsOver(_, _)
\* The mappings of at most n nodes whose keys avoid `used` (keys are unique).
MapsOver(n, used) ==
    {<<>>} \cup
    UNION { UNION { { <<Item(nome, c)>> \o rest :
                        c \in {Str(t) : t \in Texts}
                              \cup {Dict(m) : m \in MapsOver(k - 1, {})},
                        rest \in MapsOver(n - k, used \cup {nome}) }
                    : k \in 1..n }
            : nome \in Names \ used }

Trees == MapsOver(MaxNodes, {})

---------------------------------------------------------------------------
(* The filesystem. *)

DirEntry == [kind |-> "dir", content |-> <<>>]
FileEntry(text) == [kind |-> "file", content |-> text]

Parent(p) == SubSeq(p, 1, Len(p) - 1)
Exists(f, p) == p \in DOMAIN f
IsDir(f, p) == p \in DOMAIN f /\ f[p].kind = "dir"
IsFile(f, p) == p \in DOMAIN f /\ f[p].kind = "file"
Put(f, p, e) == [q \in DOMAIN f \cup {p} |-> IF q = p THEN e ELSE f[q]]

RECURSIVE FSUpTo(_)
\* The filesystems of at most k entries below the current directory: an
\* entry exists only inside an existing directory.
FSUpTo(k) ==
    IF k = 0 THEN { [q \in {<<>>} |-> DirEntry] }
    ELSE LET S == FSUpTo(k - 1) IN
         S \cup UNION { UNION { { Put(f, Append(d, n), e) :
                                    e \in {DirEntry} \cup {FileEntry(t) : t \in OldTexts} }
                                : n \in {m \in Names : ~Exists(f, Append(d, m))} }
                        : <<f, d>> \in { <<g, q>> \in S \X UNION {DOMAIN g : g \in S} : IsDir(g, q) } }

FSStates == FSUpTo(MaxPre)

Ok(f) == [ok |-> TRUE, fs |-> f, exc |-> "none"]
Fail(f, e) == [ok |-> FALSE, fs |-> f, exc |-> e]

\* The error of resolving p's parent: a component that is a file, or missing.
ParentError(f, p) ==
    IF \E k \in 0..(Len(p) - 1) : IsFile(f, SubSeq(p, 1, k)) THEN "NotADirectoryError"
    ELSE IF ~Exists(f, Parent(p)) THEN "FileNotFoundError"
    ELSE "none"

\* os.mkdir(p)
mkdir(f, p) ==
    IF Exists(f, p) THEN Fail(f, "FileExistsError")
    ELSE IF ParentError(f, p) # "none" THEN Fail(f, ParentError(f, p))
    ELSE Ok(Put(f, p, DirEntry))

RECURSIVE makedirs_no_exist_ok(_, _)
\* Mutant: os.makedirs(name) without exist_ok, which raises on a directory
\* that is already there.
makedirs_no_exist_ok(f, name) ==
    LET head == Parent(name)
        r == IF name # <<>> /\ ~Exists(f, head) THEN makedirs_no_exist_ok(f, head) ELSE Ok(f)
    IN  IF ~r.ok /\ r.exc # "FileExistsError" THEN r
        ELSE mkdir(r.fs, name)

RECURSIVE makedirs(_, _)
\* os.makedirs(name, exist_ok=True)
makedirs(f, name) ==
    LET head == Parent(name)
        r == IF name # <<>> /\ ~Exists(f, head) THEN makedirs(f, head) ELSE Ok(f)
    IN  IF ~r.ok /\ r.exc # "FileExistsError" THEN r
        ELSE LET m == mkdir(r.fs, name) IN
             IF m.ok \/ IsDir(r.fs, name) THEN Ok(m.fs) ELSE m

\* Mutant: open(p, 'a'), which keeps what an existing file holds.
open_a(f, p) ==
    IF IsDir(f, p) THEN Fail(f, "IsADirectoryError")
    ELSE IF ParentError(f, p) # "none" THEN Fail(f, ParentError(f, p))
    ELSE Ok(IF IsFile(f, p) THEN f ELSE Put(f, p, FileEntry(<<>>)))

\* Mutant: the missing directories of the file's path are created before the
\* file is opened.
open_w_makedirs(f, p) ==
    LET r == makedirs(f, Parent(p)) IN
    IF ~r.ok THEN r
    ELSE IF IsDir(r.fs, p) THEN Fail(r.fs, "IsADirectoryError")
    ELSE Ok(Put(r.fs, p, FileEntry(<<>>)))

\* open(p, 'w'): creates the file or truncates it; never creates a directory.
open_w(f, p) ==
    IF IsDir(f, p) THEN Fail(f, "IsADirectoryError")
    ELSE IF ParentError(f, p) # "none" THEN Fail(f, ParentError(f, p))
    ELSE Ok(Put(f, p, FileEntry(<<>>)))

\* The file object's flush on close: the buffered text lands after what the
\* file holds.
flush(f, p, text) == Put(f, p, FileEntry(f[p].content \o text))

\* Mutant: the name alone, the base path forgotten.
JoinNomeOnly(base_path, nome) == <<nome>>

\* os.path.join(base_path, nome)
Join(base_path, nome) == Append(base_path, nome)

---------------------------------------------------------------------------
(* The program's control state as one record, so that a step is a function *)
(* of it and a whole run is the iteration of the steps.                    *)

Frame(base_path, estrutura) == [base_path |-> base_path, estrutura |-> estrutura, i |-> 1]

W == [fs |-> fs, stack |-> stack, pc |-> pc, exc |-> exc, handles |-> handles, buf |-> buf]

Top(w) == w.stack[Len(w.stack)]
\* The loop of the innermost call still has an item to process.
HasItem(w) == w.stack # <<>> /\ Top(w).i <= Len(Top(w).estrutura)
Current(w) == Top(w).estrutura[Top(w).i]
\* caminho = os.path.join(base_path, nome)
Caminho(w) == Join(Top(w).base_path, Current(w).nome)
Pop(s) == SubSeq(s, 1, Len(s) - 1)
\* Mutant: the loop is left after its first item (a break in the loop body).
AdvancePastAll(s) == [s EXCEPT ![Len(s)].i = Len(s[Len(s)].estrutura) + 1]

\* The innermost loop moves on to its next item.
Advance(s) == [s EXCEPT ![Len(s)].i = @ + 1]

AtDict(w) == w.pc = "walk" /\ HasItem(w) /\ Current(w).conteudo.dict
AtStr(w) == w.pc = "walk" /\ HasItem(w) /\ ~Current(w).conteudo.dict
AtEnd(w) == w.pc = "walk" /\ ~HasItem(w)

\* Mutant: the loop body catches the error, notes it and goes on with the
\* next item.
RaiseAndContinue(w, e) ==
    IF HasItem(w) THEN [w EXCEPT !.exc = e, !.stack = Advance(@), !.pc = "walk"]
    ELSE [w EXCEPT !.exc = e, !.pc = "error"]

\* An exception raised by a statement of the loop body: nothing catches it.
Raise(w, e) == [w EXCEPT !.exc = e, !.pc = IF w.stack = <<>> THEN "error" ELSE "raise"]

\* The call criar_estrutura(base_path, estrutura).
Call(w, base_path, estrutura) ==
    [w EXCEPT !.stack = Append(@, Frame(base_path, estrutura)), !.pc = "walk"]

\* Mutant: the driver calls the walk without creating the base directory.
DoMakeBaseNoMakedirs(w, base, tree) == Call(w, base, tree)

\* Line 44: os.makedirs(diretorio_base, exist_ok=True), then the call of line 45.
DoMakeBase(w, base, tree) ==
    LET r == makedirs(w.fs, base) IN
    IF r.ok THEN Call([w EXCEPT !.fs = r.fs], base, tree)
    ELSE Raise([w EXCEPT !.fs = r.fs], r.exc)

\* Lines 33-35: the item is a dict.
DoMakeDir(w) ==
    LET r == makedirs(w.fs, Caminho(w)) IN
    IF r.ok THEN Call([w EXCEPT !.fs = r.fs], Caminho(w), Current(w).conteudo.items)
    ELSE Raise([w EXCEPT !.fs = r.fs], r.exc)

\* Line 37: with open(caminho, 'w') as arquivo.
DoOpen(w) ==
    LET r == open_w(w.fs, Caminho(w)) IN
    IF r.ok THEN [w EXCEPT !.fs = r.fs, !.handles = @ \cup {Caminho(w)},
                           !.buf = <<>>, !.pc = "write"]
    ELSE Raise(w, r.exc)

\* Mutant: the file is opened and nothing is written to it.
DoWriteNothing(w) == [w EXCEPT !.pc = "exit"]

\* Line 38: arquivo.write(conteudo).
DoWrite(w) == [w EXCEPT !.buf = @ \o Current(w).conteudo.text, !.pc = "exit"]

\* Mutant: open, write and close in a row without with: an exception in
\* flight skips the close.
DoExitNoCloseOnError(w) ==
    IF w.exc = "none"
    THEN [w EXCEPT !.fs = flush(w.fs, Caminho(w), w.buf), !.handles = @ \ {Caminho(w)},
                   !.buf = <<>>, !.stack = Advance(@), !.pc = "walk"]
    ELSE [w EXCEPT !.pc = "raise"]

\* Line 37, leaving the with block: the file object is closed (its buffer is
\* flushed) whether or not an exception is in flight.
DoExit(w) ==
    LET closed == [w EXCEPT !.fs = flush(w.fs, Caminho(w), w.buf),
                            !.handles = @ \ {Caminho(w)}, !.buf = <<>>]
    IN  IF w.exc = "none" THEN [closed EXCEPT !.stack = Advance(@), !.pc = "walk"]
        ELSE [closed EXCEPT !.pc = "raise"]

\* The loop of a call is exhausted: the call returns to its caller's loop,
\* the outermost call to the driver.
DoReturn(w) ==
    IF Len(w.stack) = 1 THEN [w EXCEPT !.stack = <<>>, !.pc = "returned"]
    ELSE [w EXCEPT !.stack = Advance(Pop(@))]

\* Mutant: the driver catches the error that leaves the outermost call and
\* goes on.
DoPropagateCaught(w) ==
    [w EXCEPT !.stack = Pop(@), !.pc = IF Len(w.stack) = 1 THEN "returned" ELSE "raise"]

\* An exception leaves one call of criar_estrutura; out of the outermost one
\* it ends the process.
DoPropagate(w) ==
    [w EXCEPT !.stack = Pop(@), !.pc = IF Len(w.stack) = 1 THEN "error" ELSE "raise"]

\* One step of criar_estrutura when the operating system injects no failure.
Step(w) ==
    CASE AtDict(w) -> DoMakeDir(w)
      [] AtStr(w) -> DoOpen(w)
      [] AtEnd(w) -> DoReturn(w)
      [] w.pc = "write" -> DoWrite(w)
      [] w.pc = "exit" -> DoExit(w)
      [] w.pc = "raise" -> DoPropagate(w)

RECURSIVE Run(_)
\* criar_estrutura run to its return or to the error that leaves it.
Run(w) == IF w.pc \in {"returned", "error"} THEN w ELSE Run(Step(w))

\* The state in which criar_estrutura(base, tree) is called on filesystem f.
Start(f, base, tree) ==
    [fs |-> f, stack |-> <<Frame(base, tree)>>, pc |-> "walk", exc |-> "none",
     handles |-> {}, buf |-> <<>>]

criar_estrutura(f, base, tree) == Run(Start(f, base, tree))

---------------------------------------------------------------------------
(* The state machine. *)

Becomes(w) ==
    /\ fs' = w.fs
    /\ stack' = w.stack
    /\ pc' = w.pc
    /\ exc' = w.exc
    /\ handles' = w.handles
    /\ buf' = w.buf
    /\ UNCHANGED <<diretorio_base, estrutura_projeto, fs0, out>>

Inputs ==
    /\ diretorio_base \in Bases
    /\ estrutura_projeto \in Trees
    /\ fs0 \in FSStates
    /\ fs = fs0
    /\ exc = "none"
    /\ handles = {}
    /\ buf = <<>>
    /\ out = <<>>

\* The script: line 44 is next.
Init == Inputs /\ pc = "mkbase" /\ stack = <<>>

\* criar_estrutura called on its own, the base path as the caller left it.
InitBuild == Inputs /\ pc = "walk" /\ stack = <<Frame(diretorio_base, estrutura_projeto)>>

MakeBase == pc = "mkbase" /\ Becomes(DoMakeBase(W, diretorio_base, estrutura_projeto))

\* Line 44 fails for a reason of the operating system (permission, space).
MakeBaseFault == pc = "mkbase" /\ Becomes(Raise(W, "PermissionError"))

MakeDir == AtDict(W) /\ Becomes(DoMakeDir(W))

\* Line 34 fails for a reason of the operating system.
MakeDirFault == AtDict(W) /\ Becomes(Raise(W, "PermissionError"))

Open == AtStr(W) /\ Becomes(DoOpen(W))

\* Line 37 fails for a reason of the operating system; nothing was opened.
OpenFault == AtStr(W) /\ Becomes(Raise(W, "PermissionError"))

Write == pc = "write" /\ Becomes(DoWrite(W))

\* Line 38 raises: the with block is left with the exception in flight.
WriteFault == pc = "write" /\ Becomes([W EXCEPT !.exc = "OSError:write", !.pc = "exit"])

Exit == pc = "exit" /\ Becomes(DoExit(W))

\* The flush of the close fails (no space): the handle is released all the
\* same, the buffered text is lost and the error is raised.
ExitFault ==
    /\ pc = "exit"
    /\ exc = "none"
    /\ Becomes([W EXCEPT !.handles = @ \ {Caminho(W)}, !.buf = <<>>,
                         !.exc = "OSError:flush", !.pc = "raise"])

Return == AtEnd(W) /\ Becomes(DoReturn(W))

Propagate == pc = "raise" /\ Becomes(DoPropagate(W))

\* Line 47: the success message.
Mensagem ==
    /\ pc = "returned"
    /\ out' = Append(out, "criada com sucesso")
    /\ pc' = "done"
    /\ UNCHANGED <<diretorio_base, estrutura_projeto, fs0, fs, stack, exc, handles, buf>>

NextBuild ==
    \/ MakeDir
    \/ MakeDirFault
    \/ Open
    \/ OpenFault
    \/ Write
    \/ WriteFault
    \/ Exit
    \/ ExitFault
    \/ Return
    \/ Propagate

Next ==
    \/ MakeBase
    \/ MakeBaseFault
    \/ MakeDir
    \/ MakeDirFault
    \/ Open
    \/ OpenFault
    \/ Write
    \/ WriteFault
    \/ Exit
    \/ ExitFault
    \/ Return
    \/ Propagate
    \/ Mensagem

\* The script.
Spec == Init /\ [][Next]_vars

\* criar_estrutura on its own.
SpecBuild == InitBuild /\ [][NextBuild]_vars

---------------------------------------------------------------------------
(* What the claims speak of. *)

RECURSIVE NodesAt(_, _)
\* Every node of a mapping with the path it is expected at: the base path
\* followed by the names on the node's path.
NodesAt(base, items) ==
    UNION { {[path |-> Append(base, items[k].nome), conteudo |-> items[k].conteudo]}
            \cup NodesAt(Append(base, items[k].nome), items[k].conteudo.items)
            : k \in 1..Len(items) }

TreeNodes == NodesAt(diretorio_base, estrutura_projeto)
DirNodes == {n \in TreeNodes : n.conteudo.dict}
FileNodes == {n \in TreeNodes : ~n.conteudo.dict}

\* The tree is on disk: its directories exist, its files hold their strings.
Materialised(f) ==
    /\ \A n \in DirNodes : IsDir(f, n.path)
    /\ \A n \in FileNodes : IsFile(f, n.path) /\ f[n.path].content = n.conteudo.text

DirsOf(f) == {p \in DOMAIN f : f[p].kind = "dir"}

\* The failures the operating system injects, which no filesystem state decides.
Injected == {"PermissionError", "OSError:write", "OSError:flush"}

Remove(s, k) == SubSeq(s, 1, k - 1) \o SubSeq(s, k + 1, Len(s))

RECURSIVE Reorders(_)
\* The mappings that differ from `items` only in the iteration order of the
\* siblings of each mapping.
Reorders(items) ==
    IF items = <<>> THEN {<<>>}
    ELSE UNION { { <<Item(items[k].nome, c)>> \o rest :
                     c \in IF items[k].conteudo.dict
                           THEN {Dict(m) : m \in Reorders(items[k].conteudo.items)}
                           ELSE {items[k].conteudo},
                     rest \in Reorders(Remove(items, k)) }
                 : k \in 1..Len(items) }

---------------------------------------------------------------------------
(* The claims. *)

\* C1: when criar_estrutura returns without error, every Directory node of
\* the tree is a directory at its joined path and every File node is a
\* regular file at its joined path holding exactly the node's string.
C1_TreeMaterialised == pc = "returned" => Materialised(fs)

\* A run of the spec's scenario shape (a file with text, a directory holding
\* an empty file) below a base the walk had to find, returned.
C1_Witness ==
    /\ pc = "returned"
    /\ estrutura_projeto = <<Item("a", Str(<<"x">>)),
                             Item("b", Dict(<<Item("b", Str(<<>>))>>))>>
    /\ diretorio_base = <<"a">>

\* C2: after a run that succeeded, a second run of criar_estrutura on the
\* same tree and base path succeeds and leaves the filesystem as the first
\* run left it.
C2_Idempotent ==
    pc = "returned" =>
        LET again == criar_estrutura(fs, diretorio_base, estrutura_projeto) IN
        again.pc = "returned" /\ again.fs = fs

\* A first run that created a directory and wrote a file with text, returned.
C2_Witness ==
    /\ pc = "returned"
    /\ \E n \in DirNodes : ~Exists(fs0, n.path)
    /\ \E n \in FileNodes : n.conteudo.text # <<>> /\ ~Exists(fs0, n.path)

\* C3: a regular file that existed at a File node's path with another
\* content holds, after criar_estrutura returns, the node's string and
\* nothing of what it held.
C3_Overwrite ==
    pc = "returned" =>
        \A n \in FileNodes :
            (IsFile(fs0, n.path) /\ fs0[n.path].content # n.conteudo.text)
                => fs[n.path].content = n.conteudo.text

\* A run returned that found a file with other text where it wrote text.
C3_Witness ==
    /\ pc = "returned"
    /\ \E n \in FileNodes :
          /\ IsFile(fs0, n.path)
          /\ n.conteudo.text # <<>>
          /\ fs0[n.path].content # n.conteudo.text

\* C4: in the script, whenever a File node is about to be opened its parent
\* directory exists, and no step ever fails for a missing parent; a File at
\* the root of the tree finds the base directory the driver created.
C4_ParentBeforeChild ==
    /\ AtStr(W) => IsDir(fs, Top(W).base_path)
    /\ exc # "FileNotFoundError"

\* A File at the root of the tree was written below a base directory that
\* did not exist before the script ran.
C4_Witness ==
    /\ pc = "exit"
    /\ Len(stack) = 1
    /\ ~Exists(fs0, diretorio_base)

\* C5: once a step has failed, the error leaves every enclosing call, the
\* filesystem is never touched again (no later node is created or written,
\* nothing already produced is rolled back) and the error is never cleared.
C5_FailurePropagates ==
    [][exc # "none" =>
          /\ fs' = fs
          /\ exc' = exc
          /\ pc' \in {"raise", "error"}
          /\ Len(stack') <= Len(stack)
          /\ (pc' = "error") <=> (stack' = <<>>)]_vars

\* A run ended by an error after it had changed the filesystem and before
\* it reached some node of the tree.
C5_Witness ==
    /\ pc = "error"
    /\ fs # fs0
    /\ \E n \in TreeNodes : ~Exists(fs, n.path)

\* C6: the success message is printed at most once, only after the base
\* directory was created and the whole tree written without error, and never
\* in a run in which a step failed.
C6_MessageOnlyOnSuccess ==
    /\ Len(out) <= 1
    /\ out # <<>> => (pc = "done" /\ exc = "none" /\ IsDir(fs, diretorio_base)
                      /\ Materialised(fs))
    /\ exc # "none" => out = <<>>

\* The message was printed after a walk over a tree of three nodes.
C6_Witness == Len(out) = 1 /\ Cardinality(TreeNodes) = 3

\* C7 as stated: the outcome of criar_estrutura (success or error, and the
\* filesystem on success) is the same for every iteration order of the
\* siblings, whether or not the base path exists.
C7_OrderIndependent ==
    (pc \in {"returned", "error"} /\ exc \notin Injected) =>
        \A t \in Reorders(estrutura_projeto) :
            LET other == criar_estrutura(fs0, diretorio_base, t) IN
            /\ other.pc = pc
            /\ pc = "returned" => other.fs = fs

\* C7 as amended: when the base path is an existing directory, the outcome
\* of criar_estrutura is the same for every iteration order of the siblings.
C7_OrderIndependentInBase ==
    (pc \in {"returned", "error"} /\ exc \notin Injected /\ IsDir(fs0, diretorio_base)) =>
        \A t \in Reorders(estrutura_projeto) :
            LET other == criar_estrutura(fs0, diretorio_base, t) IN
            /\ other.pc = pc
            /\ pc = "returned" => other.fs = fs

\* A run below an existing base over two siblings, one of which fails for
\* what the filesystem holds, ended.
C7_Witness ==
    /\ pc = "error"
    /\ exc \notin Injected
    /\ IsDir(fs0, diretorio_base)
    /\ Len(estrutura_projeto) = 2
    /\ fs # fs0

\* C8: the steps of a File node never create a directory; a File node whose
\* parent directory is missing fails and leaves the filesystem as it was;
\* a directory appears only in a step of the Directory branch.
C8_FileBranchMakesNoDirectory ==
    [][/\ (AtStr(W) \/ pc \in {"write", "exit"}) => DirsOf(fs') = DirsOf(fs)
       /\ (AtStr(W) /\ ~Exists(fs, Top(W).base_path)) => (fs' = fs /\ exc' # "none")
       /\ DirsOf(fs') # DirsOf(fs) => (AtDict(W) \/ pc = "mkbase")]_vars

\* A File node was reached below a missing directory and the walk ended in
\* the error of that.
C8_Witness == pc = "error" /\ exc = "FileNotFoundError" /\ fs = fs0

\* C9: nothing that existed before the run is ever deleted or changes its
\* kind, and a file whose path is not that of a File node of the tree keeps
\* its content, at every moment of the run, successful or not.
C9_Frame ==
    fs # fs0 =>
        LET written == {n.path : n \in FileNodes} IN
        \A p \in DOMAIN fs0 :
            /\ p \in DOMAIN fs
            /\ fs[p].kind = fs0[p].kind
            /\ p \notin written => fs[p] = fs0[p]

\* The script ended after writing into a directory the tree names, which
\* held a file the tree does not name.
C9_Witness ==
    /\ pc = "done"
    /\ fs # fs0
    /\ \E p \in DOMAIN fs0 :
          /\ IsFile(fs0, p)
          /\ p \notin {n.path : n \in TreeNodes}
          /\ Parent(p) \in {n.path : n \in DirNodes}

\* C10: at most one file handle is open at any time, and none is open
\* outside the with block: not when the next node is processed, not when
\* criar_estrutura returns, not while an error propagates.
C10_HandleReleased ==
    /\ Cardinality(handles) <= 1
    /\ pc \notin {"write", "exit"} => handles = {}

\* A write raised inside the with block and the error left the walk.
C10_Witness == pc = "error" /\ exc = "OSError:write" /\ handles = {}

====
